---- MODULE Spec2Model ----
(***************************************************************************)
(* Model of the GrcSlack facility (src/index.js): the error-batching       *)
(* engine (logErrorEnqueue, _processBatchedErrors, _stop, the interval     *)
(* timer) and the direct-log path (logError, message).                     *)
(*                                                                         *)
(* JavaScript runs one job at a time; an async function runs without       *)
(* interruption up to its next await.  Every action below is one such run: *)
(* from a call or a promise settlement to the next suspension.             *)
(***************************************************************************)
EXTENDS Integers, Sequences, FiniteSets, TLC

\* ------------------------------------------------------------------ bounds

\* logErrorEnqueue calls per behaviour of Spec
MaxEnq == 2
\* logErrorEnqueue calls per behaviour of SpecWindow
MaxWindowEnq == 4
\* flush routines suspended at the same time
MaxInFlight == 2
\* _stop calls per behaviour
MaxStop == 1
\* the clock of SpecWindow runs from 0 to MaxTime
MaxTime == 1
\* conf.errorBatching.maxSize of the modelled configuration
ConfMaxSize == 2
\* logErrorEnqueue calls per behaviour of SpecReport
MaxReportEnq == 3
\* _stop calls and logErrorEnqueue calls per behaviour of SpecStop
MaxStopCalls == 2
MaxStopEnq == 1
\* logErrorEnqueue calls per behaviour of SpecLive
MaxLiveEnq == 2
\* error types in one group handed to the formatter
MaxTypes == 11

\* ------------------------------------------------------- JavaScript values

JsNull == [t |-> "null", s |-> ""]
JsUndefined == [t |-> "undefined", s |-> ""]
JsStr(x) == [t |-> "string", s |-> x]

\* truthiness of a string-or-nullish value: null, undefined and "" are falsy
Truthy(v) == v.t = "string" /\ v.s # ""

\* conversion of a value inside a template literal
JsToString(v) == IF v.t = "string" THEN v.s ELSE v.t

\* a || b
JsOr(a, b) == IF Truthy(a) THEN a ELSE b

\* error values handed to logErrorEnqueue
\*   Error    new Error(message)
\*   null     null or undefined
\*   plain    {}: no message, Object.prototype.toString
\*   bare     Object.create(null): no message and no toString method
ErrObj(m) == [kind |-> "Error", message |-> m]
ErrNull == [kind |-> "null", message |-> ""]
ErrPlain == [kind |-> "plain", message |-> ""]
ErrBare == [kind |-> "bare", message |-> ""]
\*   numMessage  { message: 42 }: a message that is not a string
ErrNumMsg == [kind |-> "numMessage", message |-> ""]

\* ------------------------------------------------------------ input sets

\* conf.channel of the modelled configuration
confChannel == JsStr("a")

\* the arguments of Spec: two channels and two sources, with and without ':',
\* two messages, and the error values on which the enqueue path throws
ChannelArgs == {JsNull, JsStr("a:b")}
SourceArgs == {JsStr("c"), JsStr("b:c")}
ErrArgs == {ErrObj("E1"), ErrObj("E2"), ErrNull, ErrBare}
ExtraArgs == {<<>>}

\* the arguments of SpecWindow: every call that is stored has the same fingerprint
WindowChannelArgs == {JsNull, JsUndefined, JsStr(""), JsStr("a")}
WindowSourceArgs == {JsStr("c")}
WindowErrArgs == {ErrObj("E1")}
WindowExtraArgs == {<<>>, <<"x">>}

VARIABLES
  conf,            \* this.conf: [enable, errorBatching] (errorBatching: configured or not)
  lru,             \* whether opts.lru was supplied
  hasErrorBatch,   \* whether this._errorBatch is set
  errorBatch,      \* the store's cache.cache: sequence of [key, ref] in insertion order
  objs,            \* the entry objects, by reference
  errorBatchTimer, \* this._errorBatchTimer: "unset", "active" or "null"
  now,             \* the clock read by new Date()
  promises,        \* the promise returned by each logErrorEnqueue call
  flushes,         \* the _processBatchedErrors routines suspended at an await
  nStop,           \* _stop calls
  cbCalls,         \* super._stop(cb) calls
  contrib,         \* per fingerprint, the contributions stored since the store was last cleared
  last             \* the run that produced this state

vars == <<conf, lru, hasErrorBatch, errorBatch, objs, errorBatchTimer, now, promises,
          flushes, nStop, cbCalls, contrib, last>>

\* ---------------------------------------------------------- fingerprinter

createErrorGroupKey(reqChannel, sourceName) ==
  JsToString(reqChannel) \o ":" \o JsToString(sourceName)

\* err?.message || err?.toString() || 'Unknown error', and whether the hash accepts
\* it: err.toString is not a function on an object without prototype, and
\* update() throws on a value that is not a string
ErrorMsg(err) ==
  CASE err.kind = "null" -> [thrown |-> FALSE, v |-> "Unknown error"]
    [] err.kind = "Error" ->
         [thrown |-> FALSE, v |-> IF err.message # "" THEN err.message ELSE "Error"]
    [] err.kind = "plain" -> [thrown |-> FALSE, v |-> "[object Object]"]
    [] err.kind = "numMessage" -> [thrown |-> TRUE, v |-> ""]
    [] OTHER -> [thrown |-> TRUE, v |-> ""]

\* createHash('sha1').update(msg).digest('hex') on the messages of the model
Sha1Hex(msg) ==
  CASE msg = "E1" -> "07460df10583e94e946fbaccc6e1e861aabd5e23"
    [] msg = "E2" -> "16d509a7146781ec37fe7fba349b58e79ee2f65b"
    [] msg = "Unknown error" -> "e5fd9aa24c9417e7332e6f25936ae2a6ec8f1524"
    [] msg = "[object Object]" -> "c1d44ff03aff1372856c281854f454e2e1d15b7c"
    [] msg = "Error" -> "7f2f6a15cf8da2b27e5a4af47b58e7ad71c0b3d9"

createErrorKey(reqChannel, err, sourceName) ==
  LET src == IF sourceName.t = "undefined" THEN JsStr("unknown") ELSE sourceName
      errorMsg == ErrorMsg(err)
  IN IF errorMsg.thrown
       THEN [thrown |-> TRUE, key |-> ""]
       ELSE [thrown |-> FALSE,
             key |-> createErrorGroupKey(reqChannel, src) \o ":" \o Sha1Hex(errorMsg.v)]

\* ------------------------------------------------------------------ store

\* this._errorBatch.get(key): the reference stored under key, 0 when there is none
Get(store, key) ==
  IF \E i \in 1..Len(store) : store[i].key = key
    THEN (CHOOSE r \in {store[i] : i \in 1..Len(store)} : r.key = key).ref
    ELSE 0

\* this._errorBatch.set(key, ref) of a key that is not in the store
Set(store, key, ref) == Append(store, [key |-> key, ref |-> ref])

Refs(store) == {store[i].ref : i \in 1..Len(store)}

\* ---------------------------------------------------------------- entries

\* err.message
ErrMessageProp(err) == IF err.kind = "Error" THEN JsStr(err.message) ELSE JsUndefined

\* the entry as the earlier Map-based version built it: count 0 before the increment
NewEntryCountZero(reqChannel, err, sourceName, payload, extra, t) ==
  [errorMessage |-> ErrMessageProp(err),
   sourceName |-> sourceName,
   reqChannel |-> reqChannel,
   payloads |-> <<[payload |-> payload, extras |-> extra]>>,
   count |-> 0,
   firstSeen |-> t,
   lastSeen |-> t]

\* the entry when creation falls through to the push of the update path
NewEntryTwoPayloads(reqChannel, err, sourceName, payload, extra, t) ==
  [errorMessage |-> ErrMessageProp(err),
   sourceName |-> sourceName,
   reqChannel |-> reqChannel,
   payloads |-> <<[payload |-> payload, extras |-> extra],
                  [payload |-> payload, extras |-> extra]>>,
   count |-> 1,
   firstSeen |-> t,
   lastSeen |-> t]

NewEntry(reqChannel, err, sourceName, payload, extra, t) ==
  [errorMessage |-> ErrMessageProp(err),
   sourceName |-> sourceName,
   reqChannel |-> reqChannel,
   payloads |-> <<[payload |-> payload, extras |-> extra]>>,
   count |-> 1,
   firstSeen |-> t,
   lastSeen |-> t]

\* the update that also writes firstSeen
UpdateEntryMovesFirstSeen(e, payload, extra, t) ==
  LET pushed == Append(e.payloads, [payload |-> payload, extras |-> extra])
  IN [e EXCEPT !.count = @ + 1,
               !.firstSeen = t,
               !.lastSeen = t,
               !.payloads = IF Len(pushed) > 3 THEN Tail(pushed) ELSE pushed]

\* the update without errorEntry.count++
UpdateEntryNoCount(e, payload, extra, t) ==
  LET pushed == Append(e.payloads, [payload |-> payload, extras |-> extra])
  IN [e EXCEPT !.lastSeen = t,
               !.payloads = IF Len(pushed) > 3 THEN Tail(pushed) ELSE pushed]

\* the update with pop() in place of shift(): the newest payload is dropped
UpdateEntryDropsNewest(e, payload, extra, t) ==
  LET pushed == Append(e.payloads, [payload |-> payload, extras |-> extra])
  IN [e EXCEPT !.count = @ + 1,
               !.lastSeen = t,
               !.payloads = IF Len(pushed) > 3 THEN SubSeq(pushed, 1, 3) ELSE pushed]

UpdateEntry(e, payload, extra, t) ==
  LET pushed == Append(e.payloads, [payload |-> payload, extras |-> extra])
  IN [e EXCEPT !.count = @ + 1,
               !.lastSeen = t,
               !.payloads = IF Len(pushed) > 3 THEN Tail(pushed) ELSE pushed]

\* ------------------------------------------------------------ constructor

\* the condition with || in place of &&
BatchingActiveEither(c, l) == c.errorBatching \/ l

\* if (this.conf.errorBatching && opts.lru)
BatchingActive(c, l) == c.errorBatching /\ l

\* --------------------------------------------------------------- notifier

\* message without its first line: the outbound call is made whatever conf.enable
messageIgnoresEnable(reqChannel, text) ==
  [outbound |-> TRUE, channel |-> JsOr(reqChannel, confChannel), text |-> text,
   resolves |-> "transport"]

\* message(reqChannel, text): the outbound call it makes, if any
message(reqChannel, text) ==
  IF ~conf.enable
    THEN [outbound |-> FALSE, channel |-> JsUndefined, text |-> text,
          resolves |-> "false"]
    ELSE [outbound |-> TRUE, channel |-> JsOr(reqChannel, confChannel), text |-> text,
          resolves |-> "transport"]

\* slack.max_length || 1024; 0 stands for a missing value
MaxLength(configured) == IF configured = 0 THEN 1024 ELSE configured

\* (slack.env) ? `Env: ${slack.env}, ` : ''
EnvTag(env) == IF env = "" THEN "" ELSE "Env: " \o env \o ", "

\* the text sent as it is, whatever its length
TruncateNever(rawText, maxLength) == rawText

\* (rawText.length > maxLength) ? rawText.slice(0, maxLength) : rawText
Truncate(rawText, maxLength) ==
  IF Len(rawText) > maxLength THEN SubSeq(rawText, 1, maxLength) ELSE rawText

\* the text of the outbound call message makes (lines 52-57)
OutboundText(env, configured, msg) ==
  Truncate(EnvTag(env) \o msg, MaxLength(configured))

\* the text logError hands to message for a string and no extras (lines 67-73)
LogErrorText(err) == "Error: " \o err

\* the promise of an async function that returns or awaits message(...)
Awaiting(m) == IF m.outbound THEN "pending" ELSE "resolved"

\* the grc_bfx.req calls one message invocation makes (lines 57-63)
OutboundCalls(m) ==
  IF m.outbound THEN <<[channel |-> m.channel, text |-> m.text]>> ELSE <<>>

\* ---------------------------------------------------------------- enqueue

\* a not-initialized path that writes to the console and returns
DirectCallsNone(reqChannel, err, sourceName, payload, extra) == <<>>

\* the logError call of the not-initialized path (line 97)
DirectCalls(reqChannel, err, sourceName, payload, extra) ==
  <<[reqChannel |-> reqChannel, err |-> err, sourceName |-> sourceName,
     payload |-> payload, extra |-> extra]>>

\* a catch block that only logs to the console
FallbackCallsNone(reqChannel, err, sourceName, payload, extra) == <<>>

\* the logError call of the catch block (line 136)
FallbackCalls(reqChannel, err, sourceName, payload, extra) ==
  <<[reqChannel |-> reqChannel, err |-> err, sourceName |-> sourceName,
     payload |-> payload, extra |-> extra]>>

\* the default applied to null and undefined only: "" is kept
ChannelOrDefaultNullish(reqChannel) ==
  IF reqChannel.t # "string" THEN confChannel ELSE reqChannel

\* if (!reqChannel) { reqChannel = this.conf.channel }
ChannelOrDefault(reqChannel) ==
  IF ~Truthy(reqChannel) THEN confChannel ELSE reqChannel

\* One run of logErrorEnqueue on the current state: the path taken, the store and
\* the entry objects it leaves, and the logError calls it makes.
EnqueueRun(reqChannel0, err, sourceName, payload, extra, ref) ==
  IF ~hasErrorBatch
    THEN [path |-> "notInitialized", key |-> "", store |-> errorBatch, objs |-> objs,
          logError |-> DirectCalls(reqChannel0, err, sourceName, payload, extra)]
    ELSE
      LET reqChannel == ChannelOrDefault(reqChannel0)
          errorKey == createErrorKey(reqChannel, err, sourceName)
          caught == [path |-> "fallback", key |-> "", store |-> errorBatch, objs |-> objs,
                     logError |-> FallbackCalls(reqChannel, err, sourceName, payload, extra)]
      IN IF errorKey.thrown
           THEN caught
           ELSE
             LET found == Get(errorBatch, errorKey.key)
             IN IF found = 0
                  THEN IF err.kind = "null"
                         THEN caught   \* err.message of null or undefined throws
                         ELSE [path |-> "created", key |-> errorKey.key,
                               store |-> Set(errorBatch, errorKey.key, ref),
                               objs |-> [o \in DOMAIN objs \cup {ref} |->
                                           IF o = ref
                                             THEN NewEntry(reqChannel, err, sourceName,
                                                           payload, extra, now)
                                             ELSE objs[o]],
                               logError |-> <<>>]
                  ELSE [path |-> "updated", key |-> errorKey.key,
                        store |-> errorBatch,
                        objs |-> [objs EXCEPT ![found] =
                                    UpdateEntry(@, payload, extra, now)],
                        logError |-> <<>>]

logErrorEnqueue(reqChannel, err, sourceName, extra) ==
  /\ UNCHANGED <<conf, lru, hasErrorBatch, errorBatchTimer, now, flushes, nStop,
                 cbCalls>>
  /\ LET call == Len(promises) + 1
         payload == call
         run == EnqueueRun(reqChannel, err, sourceName, payload, extra, call)
         stored == run.path \in {"created", "updated"}
     IN /\ errorBatch' = run.store
        /\ objs' = run.objs
        /\ promises' = Append(promises,
             IF run.logError = <<>>
               THEN "resolved"
               ELSE Awaiting(message(run.logError[1].reqChannel, "direct")))
        /\ contrib' =
             IF stored
               THEN [k \in DOMAIN contrib \cup {run.key} |->
                       IF k = run.key
                         THEN Append(IF k \in DOMAIN contrib THEN contrib[k] ELSE <<>>,
                                     [payload |-> payload, extras |-> extra])
                         ELSE contrib[k]]
               ELSE contrib
        /\ last' = [op |-> "enqueue", call |-> call, time |-> now, reqChannel |-> reqChannel, err |-> err,
                    sourceName |-> sourceName, payload |-> payload, extra |-> extra,
                    path |-> run.path, key |-> run.key, logError |-> run.logError,
                    outbound |-> IF run.logError = <<>>
                                   THEN <<>>
                                   ELSE OutboundCalls(message(run.logError[1].reqChannel,
                                                              "direct")),
                    flushStarted |-> Len(flushes') > Len(flushes)]

\* a direct log that makes its outbound call again when the call fails
DirectLogSettlesRetries(call, ok) ==
  /\ call \in 1..Len(promises)
  /\ promises[call] = "pending"
  /\ promises' = [promises EXCEPT ![call] = IF ok THEN "resolved" ELSE "pending"]
  /\ last' = [op |-> "directSettled", call |-> call, ok |-> ok]
  /\ UNCHANGED <<conf, lru, hasErrorBatch, errorBatch, objs, errorBatchTimer, now, flushes,
                 nStop, cbCalls, contrib>>

\* the outbound call of a direct log settles: the transport answers, fails or times out
DirectLogSettles(call, ok) ==
  /\ call \in 1..Len(promises)
  /\ promises[call] = "pending"
  /\ promises' = [promises EXCEPT ![call] = IF ok THEN "resolved" ELSE "rejected"]
  /\ last' = [op |-> "directSettled", call |-> call, ok |-> ok]
  /\ UNCHANGED <<conf, lru, hasErrorBatch, errorBatch, objs, errorBatchTimer, now, flushes,
                 nStop, cbCalls, contrib>>

\* ------------------------------------------------------------------ flush

\* earliestTime: Infinity and latestTime: -Infinity of a fresh group
Infinity == 1000000
NegInfinity == -1000000

GroupIndex(groups, groupKey) ==
  IF \E i \in 1..Len(groups) : groups[i].key = groupKey
    THEN CHOOSE i \in 1..Len(groups) : groups[i].key = groupKey
    ELSE 0

\* the total counting entries instead of occurrences
AddToGroupCountsTypes(group, ref, errorEntry) ==
  [group EXCEPT
     !.errors = Append(@, ref),
     !.totalCount = @ + 1,
     !.earliestTime = IF errorEntry.firstSeen < @ THEN errorEntry.firstSeen ELSE @,
     !.latestTime = IF errorEntry.lastSeen > @ THEN errorEntry.lastSeen ELSE @]

\* lines 161-169: the entry joins its group, whose total and time range follow
AddToGroup(group, ref, errorEntry) ==
  [group EXCEPT
     !.errors = Append(@, ref),
     !.totalCount = @ + errorEntry.count,
     !.earliestTime = IF errorEntry.firstSeen < @ THEN errorEntry.firstSeen ELSE @,
     !.latestTime = IF errorEntry.lastSeen > @ THEN errorEntry.lastSeen ELSE @]

\* a container that iterates its newest key first
MapSetInFront(groups, group) == <<group>> \o groups

\* errorGroups.set(groupKey, group) of a new key: a Map iterates in insertion order
MapSet(groups, group) == Append(groups, group)

\* the grouping loop (lines 146-170) over the entries in store order; the result
\* lists the groups in the order of errorGroups.values()
RECURSIVE GroupEntries(_, _)
GroupEntries(entries, groups) ==
  IF entries = <<>>
    THEN groups
    ELSE
      LET ref == Head(entries).ref
          errorEntry == objs[ref]
          groupKey == createErrorGroupKey(errorEntry.reqChannel, errorEntry.sourceName)
          had == GroupIndex(groups, groupKey)
          groups1 == IF had = 0
                       THEN MapSet(groups, [key |-> groupKey, errors |-> <<>>,
                                            totalCount |-> 0, earliestTime |-> Infinity,
                                            latestTime |-> NegInfinity])
                       ELSE groups
          i == GroupIndex(groups1, groupKey)
      IN GroupEntries(Tail(entries),
                      [groups1 EXCEPT ![i] = AddToGroup(@, ref, errorEntry)])

\* the report _sendBatchedErrorMessage builds from the entry objects as they are
\* when it runs: per listed type the message, the count and the payload window
sendBatchedErrorMessage(reqChannel, sourceName, errors, totalErrors, earliestTime, latestTime) ==
  [reqChannel |-> reqChannel,
   sourceName |-> sourceName,
   errors |-> errors,
   types |-> [i \in 1..Len(errors) |->
                [errorMessage |-> objs[errors[i]].errorMessage,
                 count |-> objs[errors[i]].count,
                 payloads |-> objs[errors[i]].payloads]],
   totalErrors |-> totalErrors,
   earliestTime |-> earliestTime,
   latestTime |-> latestTime]

\* one iteration of the dispatch loop (lines 172-175) up to its await: the
\* outbound calls it makes
DispatchGroup(group) ==
  LET first == objs[group.errors[1]]
      report == sendBatchedErrorMessage(first.reqChannel, first.sourceName, group.errors,
                                        group.totalCount, group.earliestTime,
                                        group.latestTime)
      m == message(report.reqChannel, report)
  IN IF m.outbound THEN <<[channel |-> m.channel, report |-> m.text]>> ELSE <<>>

\* a flush routine without its catch block: a failed dispatch rejects the routine
FlushCatchRethrows(failed) ==
  [logged |-> FALSE, outcome |-> IF failed THEN "rejected" ELSE "resolved"]

\* catch (e) { console.error('Failed to process batched errors', e) }: the failure
\* is written to the console and the routine's promise resolves
FlushCatch(failed) == [logged |-> failed, outcome |-> "resolved"]

\* clear() as the last statement of the try block: skipped when a dispatch fails
ClearStoreOnSuccess(store, failed) == IF failed THEN store ELSE <<>>

\* finally { this._errorBatch.clear() }
ClearStore(store, failed) == <<>>

NoContrib == [k \in {} |-> <<>>]

FlushRefs(fs) ==
  UNION {UNION {{g.errors[j] : j \in 1..Len(g.errors)} :
                  g \in {fs[i].groups[n] : n \in 1..Len(fs[i].groups)}} :
           i \in 1..Len(fs)}

RemoveAt(seq, i) == SubSeq(seq, 1, i - 1) \o SubSeq(seq, i + 1, Len(seq))

\* the scan of a routine that leaves out what a suspended routine has scanned
AllEntriesNotInFlight(store) ==
  SelectSeq(store, LAMBDA r : r.ref \notin FlushRefs(flushes))

\* Object.values(this._errorBatch.cache.cache || {}): every entry of the store
AllEntries(store) == store

\* the guard without its store-length test
EarlyReturnUnconfiguredOnly(has, store) == ~has

\* if (!this._errorBatch || this._errorBatch.cache.length === 0) return
EarlyReturn(has, store) == ~has \/ Len(store) = 0

\* _processBatchedErrors from its call to its first await (or its return, when it
\* returns at the guard or finds no group to dispatch)
processBatchedErrors(trigger) ==
  IF EarlyReturn(hasErrorBatch, errorBatch)
    THEN /\ last' = [op |-> "flushNoop", trigger |-> trigger]
         /\ UNCHANGED flushes
    ELSE
      LET allEntries == AllEntries(errorBatch)
          groups == GroupEntries(allEntries, <<>>)
      IN IF groups = <<>>
           THEN \* no group: the loops do nothing and clear() finds the store empty
                /\ last' = [op |-> "flushEmptyRun", trigger |-> trigger]
                /\ UNCHANGED flushes
           ELSE
         /\ flushes' = Append(flushes,
                [trigger |-> trigger, groups |-> groups, k |-> 1,
                 scanned |-> [i \in 1..Len(allEntries) |->
                                [ref |-> allEntries[i].ref,
                                 reqChannel |-> objs[allEntries[i].ref].reqChannel,
                                 sourceName |-> objs[allEntries[i].ref].sourceName]],
                 sent |-> DispatchGroup(groups[1])])
         /\ last' = [op |-> "flushStart", trigger |-> trigger]

\* a timer that fires once (setTimeout in place of setInterval)
TimerFiresOnce ==
  /\ errorBatchTimer = "active"
  /\ processBatchedErrors("timer")
  /\ errorBatchTimer' = "null"
  /\ UNCHANGED <<conf, lru, hasErrorBatch, errorBatch, objs, now, promises,
                 nStop, cbCalls, contrib>>

\* the interval callback of _initErrorBatching
TimerFires ==
  /\ errorBatchTimer = "active"
  /\ processBatchedErrors("timer")
  /\ UNCHANGED <<conf, lru, hasErrorBatch, errorBatch, objs, errorBatchTimer, now, promises,
                 nStop, cbCalls, contrib>>

\* _stop with super._stop(cb) ahead of the try block: the callback is invoked
\* before the final flush is awaited
stopCallsBackFirst ==
  /\ nStop' = nStop + 1
  /\ errorBatchTimer' = IF errorBatchTimer = "active" THEN "null" ELSE errorBatchTimer
  /\ processBatchedErrors("stop")
  /\ cbCalls' = cbCalls + 1
  /\ UNCHANGED <<conf, lru, hasErrorBatch, errorBatch, objs, now, promises, contrib>>

\* _stop without its cancel step (lines 34-37)
stopWithoutCancel ==
  /\ nStop' = nStop + 1
  /\ errorBatchTimer' = errorBatchTimer
  /\ processBatchedErrors("stop")
  /\ cbCalls' = IF Len(flushes') = Len(flushes) THEN cbCalls + 1 ELSE cbCalls
  /\ UNCHANGED <<conf, lru, hasErrorBatch, errorBatch, objs, now, promises, contrib>>

\* _stop(cb) up to its await; when the final flush returns early nothing is left to
\* wait for and super._stop(cb) follows
stop ==
  /\ nStop' = nStop + 1
  /\ errorBatchTimer' = IF errorBatchTimer = "active" THEN "null" ELSE errorBatchTimer
  /\ processBatchedErrors("stop")
  /\ cbCalls' = IF Len(flushes') = Len(flushes) THEN cbCalls + 1 ELSE cbCalls
  /\ UNCHANGED <<conf, lru, hasErrorBatch, errorBatch, objs, now, promises, contrib>>

\* the dispatch a flush routine awaits settles: the routine goes on to the next
\* group, or (after the last group, or on a failure) clears the store and returns
FlushResumes(i, ok) ==
  /\ i \in 1..Len(flushes)
  /\ ok \/ conf.enable
  /\ LET f == flushes[i]
     IN IF ok /\ f.k < Len(f.groups)
          THEN /\ flushes' = [flushes EXCEPT
                                ![i].k = @ + 1,
                                ![i].sent = @ \o DispatchGroup(f.groups[f.k + 1])]
               /\ last' = [op |-> "flushDispatch", ok |-> ok]
               /\ UNCHANGED <<errorBatch, objs, contrib, cbCalls>>
          ELSE /\ flushes' = RemoveAt(flushes, i)
               /\ errorBatch' = ClearStore(errorBatch, ~ok)
               /\ contrib' = [k \in {errorBatch'[j].key : j \in 1..Len(errorBatch')} |->
                                contrib[k]]
               /\ objs' = [o \in (Refs(errorBatch') \cup FlushRefs(flushes')) |-> objs[o]]
               /\ cbCalls' = IF f.trigger = "stop" THEN cbCalls + 1 ELSE cbCalls
               /\ last' = [op |-> "flushDone", trigger |-> f.trigger,
                           failed |-> ~ok, scanned |-> f.scanned, sent |-> f.sent,
                           k |-> f.k, nGroups |-> Len(f.groups),
                           caught |-> FlushCatch(~ok)]
  /\ UNCHANGED <<conf, lru, hasErrorBatch, errorBatchTimer, now, promises, nStop>>

\* time passes
Tick ==
  /\ now' = now + 1
  /\ UNCHANGED <<conf, lru, hasErrorBatch, errorBatch, objs, errorBatchTimer, promises,
                 flushes, nStop, cbCalls, contrib, last>>

\* -------------------------------------------------------------- formatter

\* two decimal digits
Pad2(n) == IF n < 10 THEN "0" \o ToString(n) ELSE ToString(n)

\* formatTime of ./utils/date-time: HH:MM:SS in UTC; the clock counts seconds
formatTime(t) ==
  Pad2((t \div 3600) % 24) \o ":" \o Pad2((t \div 60) % 60) \o ":" \o Pad2(t % 60)

\* the range rendered with both ends even when they are equal
formatTimeRangeAlwaysBoth(earliestTime, latestTime) ==
  formatTime(earliestTime) \o " - " \o formatTime(latestTime)

formatTimeRange(earliestTime, latestTime) ==
  IF earliestTime = latestTime
    THEN formatTime(earliestTime)
    ELSE formatTime(earliestTime) \o " - " \o formatTime(latestTime)

\* this.conf.errorBatching?.maxMessageLength || 4000; 0 stands for a missing value
MaxMessageLength(configured) == IF configured = 0 THEN 4000 ELSE configured

\* JSON.stringify of an array of strings that need no escaping
RECURSIVE JsonItems(_)
JsonItems(items) ==
  IF items = <<>> THEN ""
  ELSE "\"" \o Head(items) \o "\""
       \o (IF Len(items) > 1 THEN "," ELSE "") \o JsonItems(Tail(items))

JsonArray(items) == "[" \o JsonItems(items) \o "]"

\* the three characters the source writes in front of a type line (not ASCII there)
Bullet == "<*>"

ReportTitle(sourceName) == "*Batched Error Report - " \o sourceName \o "*\n"

SummaryLine(totalErrors, nTypes, timeRange) ==
  "*Summary:* " \o ToString(totalErrors) \o " errors across " \o ToString(nTypes)
    \o " types (" \o timeRange \o ")\n\n"

TypeLine(error) ==
  Bullet \o " *" \o JsToString(error.errorMessage) \o "* ("
    \o ToString(error.count) \o "x)\n"

\* payloadStr of one element of the payload window; payloads are numbers
PayloadStr(item) ==
  "    - " \o ToString(item.payload) \o "\n"
    \o (IF item.extras # <<>>
          THEN "     Extras: " \o JsonArray(item.extras) \o "\n"
          ELSE "")

\* errors.length - errors.indexOf(error) for the i-th of n types
TruncationMarker(n, i) ==
  "\n... message truncated (" \o ToString(n - (i - 1)) \o " more error types)"

\* a note that states the number of all types
MoreNoteCountsAll(n) == "\n... and " \o ToString(n) \o " more error types"

MoreNote(n) == "\n... and " \o ToString(n - 10) \o " more error types"

\* the inner loop (lines 196-209) from the j-th payload of the i-th type on
RECURSIVE RenderPayloads(_, _, _, _, _)
RenderPayloads(msg, errors, i, j, maxLength) ==
  IF j > Len(errors[i].payloads)
    THEN [message |-> msg, truncated |-> FALSE]
    ELSE
      LET payloadStr == PayloadStr(errors[i].payloads[j])
      IN IF Len(msg) + Len(payloadStr) > maxLength
           THEN [message |-> msg \o TruncationMarker(Len(errors), i),
                 truncated |-> TRUE]
           ELSE RenderPayloads(msg \o payloadStr, errors, i, j + 1, maxLength)

\* the outer loop (lines 190-210) over errors.slice(0, 10), from the i-th type on
RECURSIVE RenderTypes(_, _, _, _)
RenderTypes(msg, errors, i, maxLength) ==
  IF i > Len(errors) \/ i > 10
    THEN [message |-> msg, truncated |-> FALSE]
    ELSE
      LET inner == RenderPayloads(msg \o TypeLine(errors[i]) \o "  Payloads:\n",
                                  errors, i, 1, maxLength)
      IN IF inner.truncated THEN inner
         ELSE RenderTypes(inner.message, errors, i + 1, maxLength)

\* the text _sendBatchedErrorMessage hands to logError
FormatReport(sourceName, errors, totalErrors, timeRange, configured) ==
  LET header == ReportTitle(sourceName)
                  \o SummaryLine(totalErrors, Len(errors), timeRange)
      body == RenderTypes(header, errors, 1, MaxMessageLength(configured))
  IN [text |-> IF Len(errors) > 10 /\ ~body.truncated
                 THEN body.message \o MoreNote(Len(errors))
                 ELSE body.message,
      truncated |-> body.truncated]

\* the text of a dispatched report: the formatter applied to the arguments of the
\* _sendBatchedErrorMessage call, with maxMessageLength not configured
ReportText(report) ==
  FormatReport(JsToString(report.sourceName), report.types, report.totalErrors,
               formatTimeRange(report.earliestTime, report.latestTime), 0).text

\* ---------------------------------------------------------- specification

\* the state the constructor leaves, for every configuration
Init ==
  /\ conf \in [enable : BOOLEAN, errorBatching : BOOLEAN]
  /\ lru \in BOOLEAN
  /\ hasErrorBatch = BatchingActive(conf, lru)
  /\ errorBatchTimer = IF BatchingActive(conf, lru) THEN "active" ELSE "unset"
  /\ errorBatch = <<>>
  /\ objs = [o \in {} |-> 0]
  /\ now = 0
  /\ promises = <<>>
  /\ flushes = <<>>
  /\ nStop = 0
  /\ cbCalls = 0
  /\ contrib = NoContrib
  /\ last = [op |-> "init"]

Next ==
  \/ /\ Len(promises) < MaxEnq
     /\ \E reqChannel \in ChannelArgs, err \in ErrArgs, sourceName \in SourceArgs,
           extra \in ExtraArgs :
          logErrorEnqueue(reqChannel, err, sourceName, extra)
  \/ \E call \in 1..MaxEnq, ok \in BOOLEAN : DirectLogSettles(call, ok)
  \/ Len(flushes) < MaxInFlight /\ TimerFires
  \/ Len(flushes) < MaxInFlight /\ nStop < MaxStop /\ stop
  \/ \E i \in 1..MaxInFlight, ok \in BOOLEAN : FlushResumes(i, ok)

\* every configuration, every interleaving of enqueues, timer callbacks, _stop and
\* transport outcomes; the clock stands still
Spec == Init /\ [][Next]_vars

\* batching is active
InitWindow == Init /\ BatchingActive(conf, lru)

NextWindow ==
  \/ /\ Len(promises) < MaxWindowEnq
     /\ \E reqChannel \in WindowChannelArgs, err \in WindowErrArgs,
           sourceName \in WindowSourceArgs, extra \in WindowExtraArgs :
          logErrorEnqueue(reqChannel, err, sourceName, extra)
  \/ flushes = <<>> /\ TimerFires
  \/ \E ok \in BOOLEAN : FlushResumes(1, ok)
  \/ now < MaxTime /\ Tick

\* repeated occurrences of one fingerprint while the clock runs, with one flush
\* routine at a time
SpecWindow == InitWindow /\ [][NextWindow]_vars

\* the arguments of SpecReport: two sources and two messages on one channel
ReportChannelArgs == {JsStr("a")}
ReportSourceArgs == {JsStr("c"), JsStr("d")}
ReportErrArgs == {ErrObj("E1"), ErrObj("E2")}
ReportExtraArgs == {<<>>}

\* batching is active and notifications are enabled
InitReport == Init /\ BatchingActive(conf, lru) /\ conf.enable

NextReport ==
  \/ /\ Len(promises) < MaxReportEnq
     /\ \E reqChannel \in ReportChannelArgs, err \in ReportErrArgs,
           sourceName \in ReportSourceArgs, extra \in ReportExtraArgs :
          logErrorEnqueue(reqChannel, err, sourceName, extra)
  \/ flushes = <<>> /\ TimerFires
  \/ \E ok \in BOOLEAN : FlushResumes(1, ok)
  \/ now < MaxTime /\ Tick

\* groups of several fingerprints while the clock runs, with one flush routine at
\* a time
SpecReport == InitReport /\ [][NextReport]_vars

\* the arguments of SpecLive: two sources on the default channel
LiveSourceArgs == {JsStr("c"), JsStr("d")}
LiveErrArgs == {ErrObj("E1")}

NextLive ==
  \/ /\ Len(promises) < MaxLiveEnq
     /\ \E err \in LiveErrArgs, sourceName \in LiveSourceArgs :
          logErrorEnqueue(JsNull, err, sourceName, <<>>)
  \/ Len(flushes) < MaxInFlight /\ TimerFires
  \/ \E i \in 1..MaxInFlight, ok \in BOOLEAN : FlushResumes(i, ok)

\* Batching is active and _stop is never called.  The interval timer keeps firing
\* (setInterval), and every outbound call settles: the transport answers, fails
\* or runs into its timeout of 10000 ms.
SpecLive ==
  /\ InitWindow
  /\ [][NextLive]_vars
  /\ WF_vars(Len(flushes) < MaxInFlight /\ TimerFires)
  /\ WF_vars(\E i \in 1..MaxInFlight, ok \in BOOLEAN : FlushResumes(i, ok))

NextStop ==
  \/ /\ Len(promises) < MaxStopEnq
     /\ \E err \in LiveErrArgs, sourceName \in LiveSourceArgs :
          logErrorEnqueue(JsNull, err, sourceName, <<>>)
  \/ \E call \in 1..MaxStopEnq, ok \in BOOLEAN : DirectLogSettles(call, ok)
  \/ Len(flushes) < MaxInFlight /\ TimerFires
  \/ Len(flushes) < MaxInFlight /\ nStop < MaxStopCalls /\ stop
  \/ \E i \in 1..MaxInFlight, ok \in BOOLEAN : FlushResumes(i, ok)

\* every configuration, with _stop called more than once
SpecStop == Init /\ [][NextStop]_vars

\* ---------------------------------------------------- the fingerprinter alone

\* the arguments of _createErrorKey: channels and sources with and without ':',
\* an omitted source, and every kind of error value
KeyChannelArgs == {JsStr("a"), JsStr("a:b")}
KeySourceArgs == {JsStr("c"), JsStr("b:c"), JsUndefined}
KeyErrArgs == {ErrObj("E1"), ErrObj("E2"), ErrObj(""), ErrNull, ErrPlain, ErrBare,
               ErrNumMsg}
KeyArgs == [reqChannel : KeyChannelArgs, err : KeyErrArgs, sourceName : KeySourceArgs]

\* two argument lists for _createErrorKey; the facility itself is idle
InitKey ==
  /\ conf = [enable |-> TRUE, errorBatching |-> TRUE]
  /\ lru = TRUE
  /\ hasErrorBatch = BatchingActive(conf, lru)
  /\ errorBatchTimer = "active"
  /\ errorBatch = <<>>
  /\ objs = [o \in {} |-> 0]
  /\ now = 0
  /\ promises = <<>>
  /\ flushes = <<>>
  /\ nStop = 0
  /\ cbCalls = 0
  /\ contrib = NoContrib
  /\ last \in [op : {"keyArgs"}, a : KeyArgs, b : KeyArgs]

\* _createErrorKey is called on each argument list
CreateErrorKeys ==
  /\ last.op = "keyArgs"
  /\ last' = [op |-> "keys", a |-> last.a, b |-> last.b,
              keyA |-> createErrorKey(last.a.reqChannel, last.a.err, last.a.sourceName),
              keyB |-> createErrorKey(last.b.reqChannel, last.b.err, last.b.sourceName)]
  /\ UNCHANGED <<conf, lru, hasErrorBatch, errorBatch, objs, errorBatchTimer, now, promises,
                 flushes, nStop, cbCalls, contrib>>

NextKey == CreateErrorKeys

\* _createErrorKey as a function of its arguments
SpecKey == InitKey /\ [][NextKey]_vars

\* -------------------------------------------------------- the formatter alone

\* a group of n types for _sendBatchedErrorMessage: type i has message Ei (made
\* long on demand), count i and a window of k payloads with the given extras
FormatArgs(n, k, suffix, extras, configured) ==
  [op |-> "formatArgs",
   sourceName |-> "c",
   errors |-> [i \in 1..n |->
                 [errorMessage |-> JsStr("E" \o ToString(i) \o suffix),
                  count |-> i,
                  payloads |-> [j \in 1..k |->
                                  [payload |-> 10 * i + j, extras |-> extras]]]],
   totalErrors |-> (n * (n + 1)) \div 2,
   timeRange |-> formatTimeRange(0, 0),
   configured |-> configured]

FormatSuffixes == {"", " xxxxxxxxxxxxxxxxxxxxxxxxxxxxxxxxxxxxxxxxxxxxxxxxx"}
FormatExtras == {<<>>, <<"x">>, <<"xxxxxxxxxxxxxxxxxxxxxxxxxxxxxx", "y">>}
FormatConfigured == {0, 120, 200}

\* the arguments of one _sendBatchedErrorMessage call; the facility itself is idle
InitFormat ==
  /\ conf = [enable |-> TRUE, errorBatching |-> TRUE]
  /\ lru = TRUE
  /\ hasErrorBatch = BatchingActive(conf, lru)
  /\ errorBatchTimer = "active"
  /\ errorBatch = <<>>
  /\ objs = [o \in {} |-> 0]
  /\ now = 0
  /\ promises = <<>>
  /\ flushes = <<>>
  /\ nStop = 0
  /\ cbCalls = 0
  /\ contrib = NoContrib
  /\ last \in {FormatArgs(n, k, suffix, extras, configured) :
                 n \in 1..MaxTypes, k \in 1..3, suffix \in FormatSuffixes,
                 extras \in FormatExtras, configured \in FormatConfigured}

\* _sendBatchedErrorMessage builds its text
FormatsReport ==
  /\ last.op = "formatArgs"
  /\ last' = [op |-> "formatted", args |-> last,
              out |-> FormatReport(last.sourceName, last.errors, last.totalErrors,
                                   last.timeRange, last.configured)]
  /\ UNCHANGED <<conf, lru, hasErrorBatch, errorBatch, objs, errorBatchTimer, now, promises,
                 flushes, nStop, cbCalls, contrib>>

\* conf.env and conf.max_length of the facility that sends the report
EnvArgs == {"", "prod"}
MaxLengthArgs == {0, 100}

\* _sendBatchedErrorMessage hands its text to logError, which hands it to message
SendsReport ==
  /\ last.op = "formatted"
  /\ \E env \in EnvArgs, configured \in MaxLengthArgs :
       last' = [op |-> "sent", report |-> last.out.text,
                maxMessageLength |-> last.args.configured,
                env |-> env, max_length |-> configured,
                text |-> OutboundText(env, configured, LogErrorText(last.out.text))]
  /\ UNCHANGED <<conf, lru, hasErrorBatch, errorBatch, objs, errorBatchTimer, now, promises,
                 flushes, nStop, cbCalls, contrib>>

NextFormat == FormatsReport \/ SendsReport

\* the text of a report as a function of the group and of maxMessageLength
SpecFormat == InitFormat /\ [][NextFormat]_vars

\* ------------------------------------------------------------- properties

Min(a, b) == IF a < b THEN a ELSE b

\* the entry stored under a fingerprint
EntryOf(key) == objs[Get(errorBatch, key)]

\* C1: logErrorEnqueue never rejects: the promise of every call resolves,
\* whatever the arguments, the store and the outcome of the outbound call.
C1_EnqueueNeverRejects ==
  \A call \in 1..Len(promises) : promises[call] # "rejected"

\* C2: with batching configured, a logErrorEnqueue run in which the key
\* computation or a later step throws makes exactly one logError call, with the
\* channel, the original error, the source, the payload and the extras, and
\* leaves the store and its entries as they were.
C2_FallbackLogsOnceStoreUntouched ==
  [][(last'.op = "enqueue" /\ last'.call = Len(promises) + 1 /\ last'.path = "fallback") =>
       /\ last'.logError =
            <<[reqChannel |-> IF Truthy(last'.reqChannel)
                                THEN last'.reqChannel ELSE confChannel,
               err |-> last'.err, sourceName |-> last'.sourceName,
               payload |-> last'.payload, extra |-> last'.extra]>>
       /\ errorBatch' = errorBatch
       /\ objs' = objs]_vars

\* a fallback run on a store that holds an entry
C2_Witness ==
  /\ last.op = "enqueue"
  /\ last.path = "fallback"
  /\ Len(errorBatch) > 0

\* C3: the store and the timer exist exactly when the errorBatching
\* configuration and opts.lru are both supplied; otherwise every logErrorEnqueue
\* run makes exactly one logError call with the arguments it was given, and no
\* flush routine ever gets past its early return.
C3_InertWithoutBatching ==
  /\ hasErrorBatch <=> (conf.errorBatching /\ lru)
  /\ (errorBatchTimer # "unset") <=> (conf.errorBatching /\ lru)
  /\ ~(conf.errorBatching /\ lru) =>
       /\ errorBatch = <<>>
       /\ flushes = <<>>
       /\ last.op \notin {"flushStart", "flushDispatch", "flushDone"}
       /\ last.op = "enqueue" =>
            /\ last.path = "notInitialized"
            /\ last.logError =
                 <<[reqChannel |-> last.reqChannel, err |-> last.err,
                    sourceName |-> last.sourceName, payload |-> last.payload,
                    extra |-> last.extra]>>

\* the errorBatching configuration without opts.lru: an enqueue was delegated and
\* the flush of a later _stop returned early
C3_Witness ==
  /\ conf.errorBatching
  /\ ~lru
  /\ Len(promises) > 0
  /\ last.op = "flushNoop"
  /\ last.trigger = "stop"

\* C4: the store holds exactly one entry per fingerprint enqueued since the store
\* was last cleared, and its count is the number of those enqueues; a flush that
\* finishes leaves no entry, so the next enqueue of the fingerprint creates an
\* entry with count 1.
C4_CountEqualsEnqueues ==
  /\ \A i \in 1..Len(errorBatch) : errorBatch[i].key \in DOMAIN contrib
  /\ \A key \in DOMAIN contrib :
       /\ Cardinality({i \in 1..Len(errorBatch) : errorBatch[i].key = key}) = 1
       /\ EntryOf(key).count = Len(contrib[key])
  /\ last.op = "flushDone" => (errorBatch = <<>> /\ DOMAIN contrib = {})

\* the second enqueue of a fingerprint whose earlier entry a flush has cleared
C4_Witness ==
  \E key \in DOMAIN contrib :
    /\ Get(errorBatch, key) > 1
    /\ Len(contrib[key]) = 2
    /\ EntryOf(key).count = 2

\* C5: every entry's payload window holds at most 3 pairs, and from the 4th
\* contribution on it holds the 3 most recent contributions in arrival order.
C5_WindowHoldsLastThree ==
  /\ \A o \in DOMAIN objs : Len(objs[o].payloads) <= 3
  /\ \A key \in DOMAIN contrib :
       Len(contrib[key]) >= 4 =>
         EntryOf(key).payloads =
           SubSeq(contrib[key], Len(contrib[key]) - 2, Len(contrib[key]))

\* a fingerprint with four contributions
C5_Witness ==
  \E key \in DOMAIN contrib : Len(contrib[key]) >= 4

C8_EagerFlushAtMaxSize ==
  (last.op = "enqueue" /\ last.path \in {"created", "updated"}
     /\ Len(errorBatch) >= ConfMaxSize) => last.flushStarted

\* C9: a flush whose dispatches all succeed has sent exactly one report per
\* distinct (reqChannel, sourceName) pair it found in the store, holding exactly
\* the entries of that pair, to that pair's channel.
C9_OneReportPerPair ==
  (last.op = "flushDone" /\ ~last.failed /\ conf.enable) =>
     LET scanned == last.scanned
         pairs == {<<scanned[i].reqChannel, scanned[i].sourceName>> :
                     i \in 1..Len(scanned)}
     IN /\ Len(last.sent) = Cardinality(pairs)
        /\ \A p \in pairs :
             \E j \in 1..Len(last.sent) :
               /\ last.sent[j].channel = p[1]
               /\ last.sent[j].report.sourceName = p[2]
               /\ {last.sent[j].report.errors[n] :
                     n \in 1..Len(last.sent[j].report.errors)}
                  = {scanned[i].ref :
                       i \in {n \in 1..Len(scanned) :
                                <<scanned[n].reqChannel, scanned[n].sourceName>> = p}}

\* C10: when a flush routine that found a non-empty store returns, after its
\* last dispatch or after a failed one, the store is empty.
C10_StoreEmptyAfterFlush ==
  last.op = "flushDone" => Len(errorBatch) = 0

\* a flush that ends on a failed dispatch
C10_Witness ==
  /\ last.op = "flushDone"
  /\ last.failed

\* C11: when a dispatch of a flush fails, the routine dispatches no later group
\* (the reports it sent end with the failed one, and a further dispatch only ever
\* follows a successful one), the failure is logged, the routine resolves, and
\* the store is empty when it returns.
C11_FailedDispatchAbortsCycle ==
  /\ last.op = "flushDispatch" => last.ok
  /\ (last.op = "flushDone" /\ last.failed) =>
       /\ Len(last.sent) = last.k
       /\ last.k <= last.nGroups
       /\ last.caught.logged
       /\ last.caught.outcome = "resolved"
       /\ errorBatch = <<>>

\* the first dispatch of a flush with two groups failed: the second group was
\* never dispatched
C11_Witness ==
  /\ last.op = "flushDone"
  /\ last.failed
  /\ last.nGroups = 2
  /\ last.k = 1
  /\ Len(last.sent) = 1

\* C12: a flush called while the store is empty or batching is not configured
\* returns at its guard: it groups nothing, dispatches nothing (no flush routine
\* is suspended, no promise is created) and leaves the store, its entries and the
\* timer as they were (a _stop that calls it has cancelled the timer before).
C12_EmptyFlushIsNoop ==
  [][(last'.op \in {"flushNoop", "flushStart", "flushEmptyRun"}
        /\ (~hasErrorBatch \/ Len(errorBatch) = 0)) =>
       /\ last'.op = "flushNoop"
       /\ flushes' = flushes
       /\ promises' = promises
       /\ errorBatch' = errorBatch
       /\ objs' = objs
       /\ errorBatchTimer' = IF last'.trigger = "stop" /\ errorBatchTimer = "active"
                               THEN "null" ELSE errorBatchTimer]_vars

\* with batching active and enqueue calls made, the timer fired on an empty store
C12_Witness ==
  /\ last.op = "flushNoop"
  /\ last.trigger = "timer"
  /\ hasErrorBatch
  /\ errorBatchTimer = "active"
  /\ Len(promises) > 0

\* C13: after a _stop call the timer is not active; the callback of each _stop
\* call has been invoked exactly once if the flush that call started has
\* returned and not at all while that flush is suspended at a dispatch; when that
\* flush returns, after its last dispatch or after a failed one, the store is
\* empty and the callback is invoked.
C13_CallbackOnceAfterFinalFlush ==
  /\ nStop > 0 => errorBatchTimer # "active"
  /\ cbCalls = nStop - Cardinality({i \in 1..Len(flushes) : flushes[i].trigger = "stop"})
  /\ (last.op = "flushDone" /\ last.trigger = "stop") =>
       /\ errorBatch = <<>>
       /\ cbCalls > 0
       /\ ~last.failed => last.k = last.nGroups

\* the final flush of a _stop call ended on a failed dispatch and its callback was
\* invoked
C13_Witness ==
  /\ last.op = "flushDone"
  /\ last.trigger = "stop"
  /\ last.failed
  /\ nStop = 1
  /\ cbCalls = 1
  /\ errorBatchTimer = "null"

\* the position, in the scan of flush routine f, of the first entry of its group j
FirstScanPos(f, j) ==
  CHOOSE p \in 1..Len(f.scanned) :
    /\ \E n \in 1..Len(f.groups[j].errors) : f.scanned[p].ref = f.groups[j].errors[n]
    /\ \A q \in 1..(p - 1) :
         \A n \in 1..Len(f.groups[j].errors) : f.scanned[q].ref # f.groups[j].errors[n]

\* C14: a suspended flush routine has begun the dispatches of its first k groups,
\* in the order in which the scan of the store first met the groups, and awaits
\* the k-th: the earlier ones have settled, and the dispatch of the next group
\* begins only in the run in which the awaited one settles with success.
C14_DispatchesSequentialInScanOrder ==
  /\ \A i \in 1..Len(flushes) :
       LET f == flushes[i]
       IN /\ f.k \in 1..Len(f.groups)
          /\ Len(f.sent) = IF conf.enable THEN f.k ELSE 0
          /\ \A j \in 1..Len(f.sent) : f.sent[j].report.errors = f.groups[j].errors
          /\ \A j \in 1..(Len(f.groups) - 1) : FirstScanPos(f, j) < FirstScanPos(f, j + 1)
  /\ last.op = "flushDispatch" =>
       \E i \in 1..Len(flushes) : flushes[i].k > 1 /\ last.ok

\* a flush routine with two groups awaits the dispatch of the second
C14_Witness ==
  /\ last.op = "flushDispatch"
  /\ \E i \in 1..Len(flushes) :
       /\ flushes[i].k = 2
       /\ Len(flushes[i].sent) = 2
       /\ flushes[i].sent[1].report.sourceName # flushes[i].sent[2].report.sourceName

\* C15: a logErrorEnqueue run with channel null, undefined or "" that stores its
\* occurrence leaves an entry whose reqChannel is conf.channel, under the
\* fingerprint of the same call made with conf.channel; when the store already
\* holds an entry under that fingerprint the run updates that entry and adds none.
C15_FalsyChannelSharesDefaultEntry ==
  [][(/\ last'.op = "enqueue"
      /\ last'.call = Len(promises) + 1
      /\ ~Truthy(last'.reqChannel)
      /\ last'.path \in {"created", "updated"}) =>
       LET explicit == createErrorKey(confChannel, last'.err, last'.sourceName).key
       IN /\ last'.key = explicit
          /\ objs'[Get(errorBatch', explicit)].reqChannel = confChannel
          /\ Get(errorBatch, explicit) # 0 =>
               /\ last'.path = "updated"
               /\ errorBatch' = errorBatch
               /\ objs'[Get(errorBatch, explicit)].count =
                    objs[Get(errorBatch, explicit)].count + 1]_vars

\* a call with channel "" has updated the entry of conf.channel
C15_Witness ==
  /\ last.op = "enqueue"
  /\ last.reqChannel = JsStr("")
  /\ last.path = "updated"
  /\ EntryOf(last.key).reqChannel = confChannel
  /\ EntryOf(last.key).count = 2

\* the text the fingerprint is made of: channel, source (with its default) and
\* the message text of the error
KeyTriple(args) ==
  <<JsToString(args.reqChannel),
    IF args.sourceName.t = "undefined" THEN "unknown" ELSE JsToString(args.sourceName),
    ErrorMsg(args.err).v>>

\* C16: two _createErrorKey calls that both return give the same key when channel,
\* source and message text are the same, and different keys when any of the
\* three differs (the digests of different texts being different).
C16_KeyInjectiveOnTriple ==
  (last.op = "keys" /\ ~last.keyA.thrown /\ ~last.keyB.thrown) =>
     ((last.keyA.key = last.keyB.key) <=> (KeyTriple(last.a) = KeyTriple(last.b)))

Contains(s, t) ==
  \E i \in 1..(Len(s) - Len(t) + 1) : SubSeq(s, i, i + Len(t) - 1) = t

\* C17: _createErrorKey returns for every error value, and for an error value
\* without a message the key contains the source name and the text
\* 'Unknown error'.
C17_KeyNeverRaises ==
  last.op = "keys" =>
     /\ ~last.keyA.thrown
     /\ last.a.err.kind \in {"null", "plain", "bare"} =>
          /\ Contains(last.keyA.key, KeyTriple(last.a)[2])
          /\ Contains(last.keyA.key, "Unknown error")

EndsWith(s, t) == Len(s) >= Len(t) /\ SubSeq(s, Len(s) - Len(t) + 1, Len(s)) = t

\* the first position of t in s
IndexOf(s, t) ==
  CHOOSE i \in 1..(Len(s) - Len(t) + 1) :
    /\ SubSeq(s, i, i + Len(t) - 1) = t
    /\ \A q \in 1..(i - 1) : SubSeq(s, q, q + Len(t) - 1) # t

\* C18: the report of a group of N types holds the line of no type after the
\* 10th, holds the lines of the types it renders in the order of the group, and,
\* when N > 10 and the text was not truncated, ends with the note
\* '... and N - 10 more error types'.
C18_AtMostTenTypesThenNote ==
  last.op = "formatted" =>
     LET errors == last.args.errors
         text == last.out.text
         shown == {i \in 1..Len(errors) : Contains(text, TypeLine(errors[i]))}
     IN /\ shown \subseteq 1..10
        /\ \A i \in shown : \A h \in 1..(i - 1) :
             h \in shown /\ IndexOf(text, TypeLine(errors[h])) < IndexOf(text, TypeLine(errors[i]))
        /\ ~Contains(text, "message truncated") =>
             /\ shown = 1..Min(Len(errors), 10)
             /\ Len(errors) > 10 =>
                  EndsWith(text, "\n... and " \o ToString(Len(errors) - 10)
                                   \o " more error types")

\* a group of 11 types rendered without truncation
C18_Witness ==
  /\ last.op = "formatted"
  /\ Len(last.args.errors) = 11
  /\ ~last.out.truncated
  /\ EndsWith(last.out.text, "\n... and 1 more error types")

\* C19: the report is at most maxMessageLength long, not counting a truncation
\* marker at its end; and a report that lacks a type line or a payload line of
\* one of the first 10 types for length ends with the truncation marker.
C19_ReportWithinMaxMessageLength ==
  last.op = "formatted" =>
     LET errors == last.args.errors
         text == last.out.text
         n == Len(errors)
         markers == {TruncationMarker(n, i) : i \in 1..n}
         marked == \E m \in markers : EndsWith(text, m)
         complete == \A i \in 1..Min(n, 10) :
                       /\ Contains(text, TypeLine(errors[i]))
                       /\ \A j \in 1..Len(errors[i].payloads) :
                            Contains(text, PayloadStr(errors[i].payloads[j]))
     IN /\ ~complete => marked
        /\ Contains(text, "message truncated") => marked
        /\ \A m \in markers :
             EndsWith(text, m) => Len(text) - Len(m) <= MaxMessageLength(last.args.configured)
        /\ ~marked => Len(text) <= MaxMessageLength(last.args.configured)

RECURSIVE SumCount(_)
SumCount(refs) ==
  IF refs = <<>> THEN 0 ELSE objs[Head(refs)].count + SumCount(Tail(refs))

C21_DisabledMakesNoOutboundCall ==
  ~conf.enable =>
     /\ ~message(JsNull, "x").outbound
     /\ message(JsNull, "x").resolves = "false"
     /\ \A call \in 1..Len(promises) : promises[call] = "resolved"
     /\ \A i \in 1..Len(flushes) : flushes[i].sent = <<>>
     /\ last.op = "flushDone" => (last.sent = <<>> /\ ~last.failed)

\* with conf.enable false, the final flush of _stop went through two groups, sent
\* nothing, and the callback of _stop was invoked
C21_Witness ==
  /\ ~conf.enable
  /\ last.op = "flushDone"
  /\ last.trigger = "stop"
  /\ last.nGroups = 2
  /\ last.sent = <<>>
  /\ cbCalls = 1

\* C22: the text of the outbound call for a report is the beginning of the
\* environment tag followed by what logError built, and is at most max_length
\* characters long (1024 when max_length is not configured), whatever
\* maxMessageLength the formatter worked with.
C22_OutboundTextWithinMaxLength ==
  last.op = "sent" =>
     LET full == (IF last.env = "" THEN "" ELSE "Env: " \o last.env \o ", ")
                   \o "Error: " \o last.report
     IN /\ Len(last.text) <= (IF last.max_length = 0 THEN 1024 ELSE last.max_length)
        /\ Len(last.text) <= Len(full)
        /\ last.text = SubSeq(full, 1, Len(last.text))
        /\ Len(full) <= (IF last.max_length = 0 THEN 1024 ELSE last.max_length) =>
             last.text = full

\* a report longer than 1024 characters, within the default maxMessageLength, was
\* cut to 1024 characters by message, environment tag included
C22_Witness ==
  /\ last.op = "sent"
  /\ last.env = "prod"
  /\ last.max_length = 0
  /\ last.maxMessageLength = 0
  /\ Len(last.report) > 1024
  /\ Len(last.text) = 1024

\* the entries a flush routine has scanned
ScannedRefs(f) == {f.scanned[n].ref : n \in 1..Len(f.scanned)}

\* C23: a flush routine that starts scans every entry of the store, whatever
\* routines are suspended at a dispatch at that moment: the entries an earlier
\* routine has scanned and not yet cleared are scanned again.
C23_FlushIsReentrant ==
  last.op = "flushStart" =>
     LET f == flushes[Len(flushes)]
     IN /\ [n \in 1..Len(f.scanned) |-> f.scanned[n].ref]
             = [n \in 1..Len(errorBatch) |-> errorBatch[n].ref]
        /\ \A i \in 1..(Len(flushes) - 1) :
             (ScannedRefs(flushes[i]) \cap Refs(errorBatch)) \subseteq ScannedRefs(f)

\* the flush of _stop has started while a flush started by the timer awaits a
\* dispatch: both are in their dispatch phase and have sent a report of the same
\* entry
C23_Witness ==
  /\ last.op = "flushStart"
  /\ last.trigger = "stop"
  /\ Len(flushes) = 2
  /\ flushes[1].trigger = "timer"
  /\ conf.enable
  /\ flushes[1].sent # <<>> /\ flushes[2].sent # <<>>
  /\ flushes[1].sent[1].report.errors[1] = flushes[2].sent[1].report.errors[1]

\* C24: with batching active, the timer never cancelled, the timer firing again
\* and again and every outbound call settling, a store that holds entries is
\* eventually emptied by a flush: every entry that is in the store is eventually
\* no longer in it.
C24_EveryEntryEventuallyFlushed ==
  (Len(errorBatch) > 0) ~> (last.op = "flushDone" /\ errorBatch = <<>>)

\* a flush started by the timer has returned and left the store it scanned empty
C24_Witness ==
  /\ last.op = "flushDone"
  /\ last.trigger = "timer"
  /\ Len(last.scanned) = 2
  /\ errorBatch = <<>>

\* C25: once _stop has been called the timer handle is null (unset when batching
\* was never configured) and stays so through every further _stop call, no
\* flush is started by the timer any more, and every _stop call, the first and
\* the later ones, goes on to its flush and its callback.
C25_CancelIsIdempotentAndFinal ==
  /\ nStop > 0 => errorBatchTimer = (IF hasErrorBatch THEN "null" ELSE "unset")
  /\ (last.op \in {"flushStart", "flushNoop"} /\ last.trigger = "timer") => nStop = 0
  /\ cbCalls + Cardinality({i \in 1..Len(flushes) : flushes[i].trigger = "stop"}) = nStop

\* a second _stop call on a facility with batching active has completed
C25_Witness ==
  /\ hasErrorBatch
  /\ nStop = 2
  /\ cbCalls = 2
  /\ errorBatchTimer = "null"
  /\ last.trigger = "stop"

\* C26: in every step, an entry that is in the store before and after keeps its
\* errorMessage, sourceName, reqChannel and firstSeen and does not lose count;
\* every entry in the store has count >= 1 and lastSeen >= firstSeen.
C26_EntryFieldsStable ==
  [][/\ \A i \in 1..Len(errorBatch) :
          LET ref == errorBatch[i].ref
          IN ref \in Refs(errorBatch') =>
               /\ objs'[ref].errorMessage = objs[ref].errorMessage
               /\ objs'[ref].sourceName = objs[ref].sourceName
               /\ objs'[ref].reqChannel = objs[ref].reqChannel
               /\ objs'[ref].firstSeen = objs[ref].firstSeen
               /\ objs'[ref].count >= objs[ref].count
     /\ \A i \in 1..Len(errorBatch') :
          /\ objs'[errorBatch'[i].ref].count >= 1
          /\ objs'[errorBatch'[i].ref].lastSeen >= objs'[errorBatch'[i].ref].firstSeen]_vars

\* an entry created at time 0 was updated at time 1
C26_Witness ==
  /\ last.op = "enqueue"
  /\ last.path = "updated"
  /\ EntryOf(last.key).firstSeen = 0
  /\ EntryOf(last.key).lastSeen = 1
  /\ EntryOf(last.key).count >= 2

\* C27: with notification enabled, a run of logErrorEnqueue that calls logError makes
\* exactly one outbound call, on the explicit channel or else on conf.channel, and
\* its promise waits for that call; when the call fails the promise is rejected and
\* no further call is made. A flush routine has made one outbound call per group it
\* dispatched, and a failed dispatch ends it with the failure caught and no further
\* dispatch.
C27_OneOutboundCallNoRetry ==
  /\ (last.op = "enqueue" /\ conf.enable) =>
        /\ Len(last.outbound) = Len(last.logError)
        /\ \A n \in 1..Len(last.outbound) :
             /\ last.outbound[n].channel =
                  (IF Truthy(last.logError[n].reqChannel)
                     THEN last.logError[n].reqChannel ELSE confChannel)
             /\ promises[last.call] = "pending"
  /\ (last.op = "directSettled" /\ ~last.ok) => promises[last.call] = "rejected"
  /\ conf.enable =>
        \A i \in 1..Len(flushes) :
          /\ Len(flushes[i].sent) = flushes[i].k
          /\ \A n \in 1..Len(flushes[i].sent) :
               flushes[i].sent[n].channel = flushes[i].sent[n].report.reqChannel
  /\ (last.op = "flushDone" /\ last.failed) =>
        /\ Len(last.sent) = last.k
        /\ last.caught.logged

\* with notification enabled, the outbound call of a direct log failed
C27_Witness ==
  /\ last.op = "directSettled"
  /\ ~last.ok
  /\ promises[last.call] = "rejected"
  /\ conf.enable

\* the number of types of a group whose type line is in the text
RenderedTypes(text, errors) ==
  Cardinality({i \in 1..Len(errors) : Contains(text, TypeLine(errors[i]))})

\* C28: a truncated report ends with a marker whose number is the number of types
\* of the group that have no line in the report.
C28_MarkerStatesUnrenderedTypes ==
  (last.op = "formatted" /\ last.out.truncated) =>
    LET n == Len(last.args.errors)
        rendered == RenderedTypes(last.out.text, last.args.errors)
    IN EndsWith(last.out.text,
                "(" \o ToString(n - rendered) \o " more error types)")

\* the entries listed in the reports a flush routine has dispatched
SentRefs(sent) ==
  UNION {{sent[n].report.errors[j] : j \in 1..Len(sent[n].report.errors)} :
           n \in 1..Len(sent)}

\* C29: no entry is listed in the dispatched reports of two flush routines.
C29_EntryReportedByOneCycle ==
  \A i, j \in 1..Len(flushes) :
    i # j => SentRefs(flushes[i].sent) \cap SentRefs(flushes[j].sent) = {}

\* C30: when a flush routine whose dispatches all succeeded clears the store, every
\* entry it clears is listed in one of the routine's reports with the count the
\* entry has when it is cleared.
C30_EveryOccurrenceReported ==
  [][(Len(flushes') < Len(flushes) /\ last'.op = "flushDone" /\ ~last'.failed) =>
       \A i \in 1..Len(errorBatch) :
         LET ref == errorBatch[i].ref
         IN \E n \in 1..Len(last'.sent) :
              \E j \in 1..Len(last'.sent[n].report.errors) :
                /\ last'.sent[n].report.errors[j] = ref
                /\ last'.sent[n].report.types[j].count = objs[ref].count]_vars

\* the sum of the counts on the type lines of a report
RECURSIVE SumTypeCounts(_)
SumTypeCounts(types) ==
  IF types = <<>> THEN 0 ELSE Head(types).count + SumTypeCounts(Tail(types))

\* C31: in every report a flush routine has dispatched, the total of the summary
\* is the sum of the counts stated on the report's type lines.
C31_SummaryTotalIsSumOfRenderedCounts ==
  \A i \in 1..Len(flushes) : \A n \in 1..Len(flushes[i].sent) :
    LET report == flushes[i].sent[n].report
    IN report.totalErrors = SumTypeCounts(report.types)

\* C32: once the shutdown callback has been invoked, no step is a flush routine
\* making an outbound dispatch, at its start or when it resumes.
C32_NoDispatchAfterCallback ==
  (cbCalls >= 1 /\ conf.enable) => last.op \notin {"flushStart", "flushDispatch"}

\* the entry objects a step creates or changes
ChangedEntries ==
  {ref \in DOMAIN objs' : ref \notin DOMAIN objs \/ objs'[ref] # objs[ref]}

\* C33: every run of logErrorEnqueue either creates or updates exactly one entry
\* of the store, calls logError not at all, makes no outbound call and returns a
\* settled promise, or leaves the store and its entries as they are and calls
\* logError exactly once.
C33_StoreUpdateOrDirectLog ==
  [][Len(promises') = Len(promises) + 1 =>
       LET stores == /\ Cardinality(ChangedEntries) = 1
                     /\ ChangedEntries \subseteq Refs(errorBatch')
                     /\ Refs(errorBatch) \subseteq Refs(errorBatch')
                     /\ Len(errorBatch') <= Len(errorBatch) + 1
                     /\ last'.logError = <<>>
                     /\ last'.outbound = <<>>
                     /\ promises'[last'.call] = "resolved"
           logs == /\ errorBatch' = errorBatch
                   /\ objs' = objs
                   /\ Len(last'.logError) = 1
       IN (stores \/ logs) /\ ~(stores /\ logs)]_vars

\* a run of logErrorEnqueue took the catch block and called logError while the
\* store holds an entry an earlier run created
C33_Witness ==
  /\ last.op = "enqueue"
  /\ last.path = "fallback"
  /\ Len(last.logError) = 1
  /\ Len(errorBatch) >= 1

====
